---------------------------- MODULE Spec2Model ----------------------------
(***************************************************************************)
(* A model of pandasai.smart_dataframe.SmartDataframe: the query pipeline  *)
(* (cache lookup, code generation, sanitization, environment construction, *)
(* execution, the self-correction loop and result classification).         *)
(*                                                                         *)
(* Code is modelled in parsed form: a record with a validity flag (does    *)
(* ast.parse accept the text) and the sequence of its top-level            *)
(* statements.  The empty text "" is the valid code with no statement.     *)
(***************************************************************************)
EXTENDS Integers, Sequences, FiniteSets, TLC

(***************************************************************************)
(* Bounds of the model.                                                    *)
(***************************************************************************)
MaxRetriesBound == 2
MaxQueries == 3
MaxStmts == 2

(***************************************************************************)
(* Values bound in an execution environment.  Every value is a record      *)
(* [len, type, result]: len is what len(value) gives (-1: the object has   *)
(* no len()), and for a sequence of length > 1, type and result are the    *)
(* "type" and "result" entries of its element [1].                         *)
(***************************************************************************)
NoneValue == [len |-> -1, type |-> "None", result |-> ""]
Table(t) == [len |-> -1, type |-> "table", result |-> t]
Module(m) == [len |-> -1, type |-> "module", result |-> m]
Attribute(m, n) == [len |-> -1, type |-> "attribute:" \o m, result |-> n]
Answer(t, v) == [len |-> 2, type |-> t, result |-> v]
ShortList == [len |-> 1, type |-> "", result |-> ""]

(***************************************************************************)
(* Exceptions.                                                             *)
(***************************************************************************)
NoError == [type |-> "", arg |-> ""]
Error(t, a) == [type |-> t, arg |-> a]

(***************************************************************************)
(* Statements (ast nodes of tree.body) and code.                           *)
(***************************************************************************)
Alias(n, a) == [name |-> n, asname |-> a]
Name(id) == [kind |-> "Name", id |-> id]
Subscript(id) == [kind |-> "Subscript", id |-> id]
Import(names) ==
    [kind |-> "Import", module |-> "", names |-> names,
     targets |-> <<>>, value |-> NoneValue, err |-> NoError]
ImportFrom(m, names) ==
    [kind |-> "ImportFrom", module |-> m, names |-> names,
     targets |-> <<>>, value |-> NoneValue, err |-> NoError]
Assign(targets, v) ==
    [kind |-> "Assign", module |-> "", names |-> <<>>,
     targets |-> targets, value |-> v, err |-> NoError]
Raise(e) ==
    [kind |-> "Raise", module |-> "", names |-> <<>>,
     targets |-> <<>>, value |-> NoneValue, err |-> e]

Code(body) == [valid |-> TRUE, body |-> body]
InvalidCode == [valid |-> FALSE, body |-> <<>>]
EmptyCode == Code(<<>>)

\* bool(code) of a code string: only the empty string is falsy
Truthy(c) == c # EmptyCode


(***************************************************************************)
(* The dependency whitelist (pandasai.constants) and the names the         *)
(* sanitizer looks at.                                                     *)
(***************************************************************************)
WHITELISTED_LIBRARIES == {"numpy", "matplotlib"}
WHITELISTED_BUILTINS == {"len", "print"}

\* module.split(".")[0] on the dotted module names of the model
Dotted == [m \in {"os.path", "numpy.linalg"} |->
              IF m = "os.path" THEN "os" ELSE "numpy"]
split0(module) == IF module \in DOMAIN Dotted THEN Dotted[module] ELSE module

\* re.match(r"df\d{0,2}$", id) on the identifiers of the model
Identifiers == {"df", "df1", "df12", "df123", "dfx", "x", "result"}
ReservedMatch(id) == id \in {"df", "df1", "df12"}

\* hasattr(import_dependency(module), name)
HasAttr(module, name) == <<module, name>> \in {<<"numpy", "array">>}

(***************************************************************************)
(* _check_imports: the dependencies after the node, or the error raised.   *)
(***************************************************************************)
AliasDeps(module, names) ==
    [i \in 1..Len(names) |->
        [module |-> module, name |-> names[i].name,
         alias |-> IF names[i].asname # "" THEN names[i].asname
                   ELSE names[i].name]]

_check_imports(node, deps, custom) ==
    LET module == IF node.kind = "Import" THEN node.names[1].name
                  ELSE node.module
        library == split0(module)
    IN  IF library = "pandas"
          THEN [err |-> NoError, deps |-> deps]
        ELSE IF library \in (WHITELISTED_LIBRARIES \cup custom)
          THEN [err |-> NoError, deps |-> deps \o AliasDeps(module, node.names)]
        ELSE IF library \notin WHITELISTED_BUILTINS
          THEN [err |-> Error("BadImportError", library), deps |-> deps]
        ELSE [err |-> NoError, deps |-> deps]

(***************************************************************************)
(* _is_df_overwrite                                                        *)
(***************************************************************************)
_is_df_overwrite(node) ==
    /\ node.kind = "Assign"
    /\ node.targets[1].kind = "Name"
    /\ ReservedMatch(node.targets[1].id)

(***************************************************************************)
(* _clean_code.  The result carries the error raised (NoError if none),    *)
(* the cleaned code, the value of _additional_dependencies the call        *)
(* leaves behind (old: the value before the call, kept when ast.parse      *)
(* raises before the list is cleared).                                     *)
(***************************************************************************)
RECURSIVE CleanBody(_, _, _, _, _)
CleanBody(body, i, new_body, deps, custom) ==
    IF i > Len(body)
      THEN [err |-> NoError, code |-> Code(new_body), deps |-> deps]
    ELSE IF body[i].kind \in {"Import", "ImportFrom"}
      THEN LET chk == _check_imports(body[i], deps, custom)
           IN  IF chk.err # NoError
                 THEN [err |-> chk.err, code |-> InvalidCode, deps |-> chk.deps]
                 ELSE CleanBody(body, i + 1, new_body, chk.deps, custom)
    ELSE IF _is_df_overwrite(body[i])
      THEN CleanBody(body, i + 1, new_body, deps, custom)
    ELSE CleanBody(body, i + 1, Append(new_body, body[i]), deps, custom)

_clean_code(code, old, custom) ==
    IF ~code.valid
      THEN [err |-> Error("SyntaxError", ""), code |-> InvalidCode, deps |-> old]
      ELSE CleanBody(code.body, 1, <<>>, <<>>, custom)

(***************************************************************************)
(* _get_environment: pd, one binding per dependency, __builtins__.         *)
(* A later dependency with the same alias replaces an earlier one.         *)
(***************************************************************************)
DepValue(lib) ==
    IF HasAttr(lib.module, lib.name) THEN Attribute(lib.module, lib.name)
    ELSE Module(lib.module)

RECURSIVE LastWithAlias(_, _, _)
LastWithAlias(deps, a, i) ==
    IF deps[i].alias = a THEN deps[i] ELSE LastWithAlias(deps, a, i - 1)

_get_environment(deps) ==
    LET aliases == {deps[i].alias : i \in 1..Len(deps)}
        names == {"pd"} \cup aliases \cup {"__builtins__"}
    IN  [n \in names |->
            IF n = "__builtins__" THEN Module("builtins")
            ELSE IF n \in aliases THEN DepValue(LastWithAlias(deps, n, Len(deps)))
            ELSE Module("pandas")]

\* environment.get(name, None)
EnvGet(env, n) == IF n \in DOMAIN env THEN env[n] ELSE NoneValue
Bind(env, n, v) == [k \in DOMAIN env \cup {n} |-> IF k = n THEN v ELSE env[k]]

(***************************************************************************)
(* exec(code_to_run, environment): the statements run in order on the      *)
(* environment, which is changed in place, up to the first exception.      *)
(* An import statement needs __import__ among the builtins.                *)
(***************************************************************************)
RECURSIVE BindTargets(_, _, _, _)
BindTargets(env, targets, v, i) ==
    IF i > Len(targets) THEN env
    ELSE BindTargets(IF targets[i].kind = "Name"
                       THEN Bind(env, targets[i].id, v) ELSE env,
                     targets, v, i + 1)

RECURSIVE ExecBody(_, _, _)
ExecBody(body, i, env) ==
    IF i > Len(body) THEN [err |-> NoError, env |-> env]
    ELSE IF body[i].kind = "Raise" THEN [err |-> body[i].err, env |-> env]
    ELSE IF body[i].kind \in {"Import", "ImportFrom"}
      THEN IF "__import__" \in WHITELISTED_BUILTINS
             THEN ExecBody(body, i + 1, env)
             ELSE [err |-> Error("ImportError", "__import__ not found"), env |-> env]
    ELSE ExecBody(body, i + 1, BindTargets(env, body[i].targets, body[i].value, 1))

exec(code, env) ==
    IF ~code.valid THEN [err |-> Error("SyntaxError", ""), env |-> env]
    ELSE ExecBody(code.body, 1, env)


(***************************************************************************)
(* The instance and the query in progress.                                 *)
(***************************************************************************)
VARIABLES
    config,                   \* self._config
    _df,                      \* self._df
    _cache,                   \* self._cache: query text -> code
    _original_instructions,   \* <<>> while the attribute is unset, else <<question>>
    _additional_dependencies, \* self._additional_dependencies
    _middlewares,             \* SmartDataframe._middlewares
    pc,                       \* position of the query() call in progress
    query,                    \* its argument
    code,                     \* local code of query() / run_code()
    code_to_run,              \* local code_to_run of run_code()
    environment,              \* local environment of run_code()
    count,                    \* local count of run_code()
    e,                        \* the exception the last failed exec raised
    results,                  \* what run_code() returned (self.last_result)
    outcome,                  \* how the last query() call ended
    calls,                    \* query() calls made so far
    generated,                \* query text -> generate_code calls of line 264
    corrections,              \* _retry_run_code calls of the call in progress
    execs,                    \* exec calls of the call in progress
    asked,                    \* _llm.call calls of the call in progress
    data_frame,               \* argument data_frame of run_code()
    cleaned,                  \* _clean_code calls of the call in progress
    error_correcting_instruction, \* the last prompt built by _retry_run_code()
    last_code_executed,       \* <<>> while the attribute is unset, else <<code>>
    owned                     \* per instance created: the middlewares it was given

vars == <<config, _df, _cache, _original_instructions, _additional_dependencies,
          _middlewares, pc, query, code, code_to_run, environment, count, e,
          results, outcome, calls, generated, corrections, execs, asked,
          data_frame, cleaned, error_correcting_instruction, last_code_executed,
          owned>>

QueryTexts == {"q1", "q2"}
InputTable == Table("T0")

\* data_frame: one table (query() passes self._df) or a list of tables
Single(t) == [multiple |-> FALSE, tables |-> <<t>>]
Multiple(ts) == [multiple |-> TRUE, tables |-> ts]

\* the arguments of the prompt of lines 475-484
NoInstruction == [code |-> EmptyCode, error_returned |-> NoError, question |-> ""]
Instruction(c, err, q) == [code |-> c, error_returned |-> err, question |-> q]

\* an instance: config.middlewares and what add_middlewares() gave it later
Instance(mws) == [middlewares |-> mws, added |-> <<>>]

(***************************************************************************)
(* What the generation service may return: generate_code for a question    *)
(* (GenCodes) and for a correction request (CorrectCodes).                 *)
(***************************************************************************)
E1 == Error("KeyError", "e1")
E2 == Error("ValueError", "e2")
ResultA == Assign(<<Name("result")>>, Answer("text", "a"))
ResultB == Assign(<<Name("result")>>, Answer("text", "b"))
ResultFrame == Assign(<<Name("result")>>, Answer("dataframe", "T2"))
ResultPlot == Assign(<<Name("result")>>, Answer("plot", "chart.png"))
ResultShort == Assign(<<Name("result")>>, ShortList)
DfOverwrite == Assign(<<Name("df")>>, Table("T1"))

GenCodes ==
    { EmptyCode,
      InvalidCode,
      Code(<<ResultA>>),
      Code(<<ResultB, Raise(E1)>>),
      Code(<<Raise(E2)>>),
      Code(<<DfOverwrite, ResultPlot>>),
      Code(<<Import(<<Alias("os", "")>>), ResultA>>),
      Code(<<Import(<<Alias("numpy", "np"), Alias("os", "")>>), ResultShort>>) }

CorrectCodes ==
    { InvalidCode,
      Code(<<ResultFrame>>),
      Code(<<ResultB, Raise(E1)>>),
      Code(<<Raise(E2)>>),
      Code(<<DfOverwrite>>),
      Code(<<Import(<<Alias("os", "")>>), ResultA>>) }

Configs ==
    [max_retries : 0..MaxRetriesBound,
     use_error_correction_framework : BOOLEAN,
     enable_cache : BOOLEAN,
     conversational_answer : BOOLEAN,
     enforce_privacy : BOOLEAN,
     custom_whitelisted_dependencies : {{}},
     middlewares : {<<>>}]

(***************************************************************************)
(* How a query() call ends.  An exception raised at a line of query()      *)
(* (or below a call made at that line) is caught by the try statement of   *)
(* lines 243-340 and becomes the returned failure message.                 *)
(***************************************************************************)
NoOutcome == [kind |-> "none", value |-> "", err |-> NoError]
Returned(v) == [kind |-> "returned", value |-> v, err |-> NoError]
Message(err) == [kind |-> "message", value |-> "", err |-> err]
Raised(err) == [kind |-> "raised", value |-> "", err |-> err]

TryBodyBeforeClassification == 243..302
TryBody == 243..332
Propagate(line, err) == IF line \in TryBody THEN Message(err) ELSE Raised(err)

\* the chain of line 293-294; ChartsMiddleware rewrites plt.show() calls only
ChartsMiddleware(c) == c
RECURSIVE RunMiddlewares(_, _, _)
RunMiddlewares(chain, i, c) ==
    IF i > Len(chain) THEN c
    ELSE RunMiddlewares(chain, i + 1,
                        IF chain[i] = "ChartsMiddleware" THEN ChartsMiddleware(c) ELSE c)

Init ==
    /\ config \in Configs
    /\ _df = InputTable
    /\ _cache = <<>>
    /\ _original_instructions = <<>>
    /\ _additional_dependencies = <<>>
    /\ _middlewares = <<"ChartsMiddleware">> \o config.middlewares
    /\ pc = "idle"
    /\ query = ""
    /\ code = EmptyCode
    /\ code_to_run = EmptyCode
    /\ environment = <<>>
    /\ count = 0
    /\ e = NoError
    /\ results = NoneValue
    /\ outcome = NoOutcome
    /\ calls = 0
    /\ generated = [q \in QueryTexts |-> 0]
    /\ corrections = 0
    /\ execs = 0
    /\ asked = 0
    /\ data_frame = Single(InputTable)
    /\ cleaned = 0
    /\ error_correcting_instruction = NoInstruction
    /\ last_code_executed = <<>>
    /\ owned = <<Instance(config.middlewares)>>

(***************************************************************************)
(* query(), lines 236-279: the cached code or a generated one.             *)
(***************************************************************************)
CacheHit(q) ==
    /\ config.enable_cache
    /\ q \in DOMAIN _cache
    /\ Truthy(_cache[q])

CacheSet(q, c) == [k \in DOMAIN _cache \cup {q} |-> IF k = q THEN c ELSE _cache[k]]

QueryStart(q) ==
    /\ pc \in {"idle", "done"}
    /\ calls < MaxQueries
    /\ calls' = calls + 1
    /\ query' = q
    /\ corrections' = 0
    /\ execs' = 0
    /\ asked' = 0
    /\ count' = 0
    /\ e' = NoError
    /\ results' = NoneValue
    /\ code_to_run' = EmptyCode
    /\ environment' = <<>>
    /\ cleaned' = 0
    /\ error_correcting_instruction' = NoInstruction
    /\ UNCHANGED <<config, _df, _additional_dependencies, _middlewares, data_frame,
                   last_code_executed, owned>>
    /\ IF CacheHit(q)
         THEN /\ code' = _cache[q]
              /\ pc' = "generated"
              /\ outcome' = NoOutcome
              /\ UNCHANGED <<_cache, _original_instructions, generated>>
         ELSE /\ generated' = [generated EXCEPT ![q] = @ + 1]
              /\ \/ \* generate_code raises
                    /\ code' = EmptyCode
                    /\ pc' = "done"
                    /\ outcome' = Propagate(264, Error("LLMError", "generate_code"))
                    /\ UNCHANGED <<_cache, _original_instructions>>
                 \/ \E c \in GenCodes :
                    /\ code' = c
                    /\ pc' = "generated"
                    /\ outcome' = NoOutcome
                    /\ _original_instructions' = <<q>>
                    /\ _cache' = IF config.enable_cache THEN CacheSet(q, c) ELSE _cache

(***************************************************************************)
(* query() lines 293-300 and run_code() lines 387-418: the middleware      *)
(* chain, _clean_code, the environment.                                    *)
(***************************************************************************)
RunCodeStart ==
    /\ pc = "generated"
    /\ LET c == RunMiddlewares(_middlewares, 1, code)
           r == _clean_code(c, _additional_dependencies,
                            config.custom_whitelisted_dependencies)
       IN  /\ code' = c
           /\ _additional_dependencies' = r.deps
           /\ IF r.err # NoError
                THEN /\ pc' = "done"
                     /\ outcome' = Propagate(296, r.err)
                     /\ UNCHANGED <<code_to_run, environment, last_code_executed>>
                ELSE /\ pc' = "loop"
                     /\ code_to_run' = r.code
                     /\ last_code_executed' = <<r.code>>
                     /\ environment' = Bind(_get_environment(r.deps), "df", _df)
                     /\ UNCHANGED outcome
    /\ count' = 0
    /\ cleaned' = cleaned + 1
    /\ UNCHANGED <<config, _df, _cache, _original_instructions, _middlewares, query,
                   e, results, calls, generated, corrections, execs, asked,
                   data_frame, error_correcting_instruction, owned>>

(***************************************************************************)
(* run_code() lines 419-429: one execution attempt.                        *)
(***************************************************************************)
LoopGuardOffByOne(n, max_retries) == n <= max_retries
LoopGuard(n, max_retries) == n < max_retries

\* line 426: the exception is re-raised when error correction is off
ReraiseIgnoringFlag(use_error_correction_framework) == FALSE
Reraise(use_error_correction_framework) == ~use_error_correction_framework

Attempt ==
    /\ pc = "loop"
    /\ LoopGuard(count, config.max_retries)
    /\ LET r == exec(code_to_run, environment)
       IN  /\ environment' = r.env
           /\ execs' = execs + 1
           /\ IF r.err = NoError
                THEN /\ code' = code_to_run
                     /\ pc' = "exited"
                     /\ UNCHANGED <<e, count, outcome>>
                ELSE /\ e' = r.err
                     /\ UNCHANGED code
                     /\ IF Reraise(config.use_error_correction_framework)
                          THEN /\ pc' = "done"
                               /\ outcome' = Propagate(296, r.err)
                               /\ UNCHANGED count
                          ELSE /\ pc' = "correcting"
                               /\ count' = count + 1
                               /\ UNCHANGED outcome
    /\ UNCHANGED <<config, _df, _cache, _original_instructions,
                   _additional_dependencies, _middlewares, query, code_to_run,
                   results, calls, generated, corrections, asked, data_frame,
                   cleaned, error_correcting_instruction, last_code_executed, owned>>

(***************************************************************************)
(* run_code() line 431 and _retry_run_code(): one correction request.      *)
(***************************************************************************)
\* line 431 passes the local code, lines 478-483 build the prompt from it, from
\* the exception and from self._original_instructions
PromptCode(c, failed, err, question) == Instruction(c, err, question)

Correct ==
    /\ pc = "correcting"
    /\ corrections' = corrections + 1
    /\ IF _original_instructions = <<>>
         THEN /\ pc' = "done"
              /\ outcome' = Propagate(296, Error("AttributeError", "_original_instructions"))
              /\ UNCHANGED <<code_to_run, error_correcting_instruction>>
         ELSE /\ error_correcting_instruction' =
                     PromptCode(code, code_to_run, e, _original_instructions[1])
              /\ \/ \* generate_code raises
                    /\ pc' = "done"
                    /\ outcome' = Propagate(296, Error("LLMError", "generate_code"))
                    /\ UNCHANGED code_to_run
                 \/ \E c \in CorrectCodes :
                    /\ code_to_run' = c
                    /\ pc' = "loop"
                    /\ UNCHANGED outcome
    /\ UNCHANGED <<config, _df, _cache, _original_instructions,
                   _additional_dependencies, _middlewares, query, code, environment,
                   count, e, results, calls, generated, execs, asked, data_frame,
                   cleaned, last_code_executed, owned>>


(***************************************************************************)
(* run_code() lines 433-435: the loop has ended by break or by its guard;  *)
(* run_code returns environment.get("result", None).                       *)
(***************************************************************************)
RunCodeReturn ==
    /\ \/ pc = "exited"
       \/ pc = "loop" /\ ~LoopGuard(count, config.max_retries)
    /\ results' = EnvGet(environment, "result")
    /\ pc' = "returned"
    /\ UNCHANGED <<config, _df, _cache, _original_instructions,
                   _additional_dependencies, _middlewares, query, code, code_to_run,
                   environment, count, e, outcome, calls, generated, corrections,
                   execs, asked, data_frame, cleaned, error_correcting_instruction,
                   last_code_executed, owned>>

(***************************************************************************)
(* query() lines 301-332: the classification of what run_code returned.    *)
(* Each element of Classify is one way the call can end: the outcome, the  *)
(* number of _llm.call calls made and whether a SmartDataframe was built.  *)
(***************************************************************************)
End(o, n, b) == [outcome |-> o, asked |-> n, built |-> b]

conversational_answer(r) ==
    IF config.enforce_privacy
      THEN \* line 357 returns the raw answer; line 315 subscripts it
           {End(Propagate(315, Error(IF r.type = "dataframe" THEN "KeyError"
                                     ELSE "TypeError", "type")), 0, FALSE)}
      ELSE \* line 362: _llm.call raises, or returns a str that line 315 subscripts
           {End(Propagate(310, Error("LLMError", "call")), 1, FALSE),
            End(Propagate(315, Error("TypeError", "type")), 1, FALSE)}

Classify(r) ==
    IF r.len < 0
      THEN {End(Propagate(304, Error("TypeError", "len")), 0, FALSE)}
    ELSE IF r.len > 1
      THEN IF config.conversational_answer
             THEN conversational_answer(r)
           ELSE IF r.type = "dataframe"
             THEN {End(Returned("SmartDataframe:" \o r.result), 0, TRUE)}
           ELSE IF r.type = "plot"
             THEN {End(Propagate(324, Error("FileNotFoundError", r.result)), 0, FALSE),
                   End(Returned("None"), 0, FALSE)}
           ELSE {End(Returned(r.result), 0, FALSE)}
    ELSE {End(Returned("None"), 0, FALSE)}

QueryClassify ==
    /\ pc = "returned"
    /\ \E end \in Classify(results) :
          /\ outcome' = end.outcome
          /\ asked' = end.asked
          /\ _middlewares' = IF end.built THEN _middlewares \o config.middlewares
                             ELSE _middlewares
          /\ owned' = IF end.built THEN Append(owned, Instance(config.middlewares))
                      ELSE owned
    /\ pc' = "done"
    /\ UNCHANGED <<config, _df, _cache, _original_instructions,
                   _additional_dependencies, query, code, code_to_run, environment,
                   count, e, results, calls, generated, corrections, execs,
                   data_frame, cleaned, error_correcting_instruction,
                   last_code_executed>>

Next ==
    \/ \E q \in QueryTexts : QueryStart(q)
    \/ RunCodeStart
    \/ Attempt
    \/ Correct
    \/ RunCodeReturn
    \/ QueryClassify

Spec == Init /\ [][Next]_vars


(***************************************************************************)
(* The sanitizer alone: _clean_code called on every code of at most        *)
(* MaxStmts top-level statements over CleanStmts.                          *)
(***************************************************************************)
CleanStmts ==
    { Import(<<Alias("os", "")>>),
      Import(<<Alias("os.path", "p")>>),
      Import(<<Alias("numpy", "np")>>),
      Import(<<Alias("numpy", ""), Alias("os", "")>>),
      Import(<<Alias("pandas", "pd"), Alias("os", "")>>),
      Import(<<Alias("scipy", "")>>),
      Import(<<Alias("len", "")>>),
      ImportFrom("os", <<Alias("path", "")>>),
      ImportFrom("numpy", <<Alias("array", "arr"), Alias("zeros", "")>>),
      ImportFrom("numpy.linalg", <<Alias("norm", "")>>),
      ResultA,
      DfOverwrite,
      Assign(<<Name("df1")>>, Table("T1")),
      Assign(<<Name("df123")>>, Table("T1")),
      Assign(<<Name("x"), Name("df")>>, Table("T1")),
      Assign(<<Name("df"), Name("x")>>, Table("T1")),
      Assign(<<Subscript("df")>>, Table("T1")) }

CleanInputs ==
    {InvalidCode} \cup
    {Code(b) : b \in UNION {[1..n -> CleanStmts] : n \in 0..MaxStmts}}

InitClean ==
    /\ config \in [max_retries : {0},
                   use_error_correction_framework : {TRUE},
                   enable_cache : {FALSE},
                   conversational_answer : {FALSE},
                   enforce_privacy : {FALSE},
                   custom_whitelisted_dependencies : {{}, {"scipy"}},
                   middlewares : {<<>>}]
    /\ _df = InputTable
    /\ _cache = <<>>
    /\ _original_instructions = <<>>
    /\ _additional_dependencies = <<>>
    /\ _middlewares = <<"ChartsMiddleware">>
    /\ pc = "clean"
    /\ query = ""
    /\ code \in CleanInputs
    /\ code_to_run = EmptyCode
    /\ environment = <<>>
    /\ count = 0
    /\ e = NoError
    /\ results = NoneValue
    /\ outcome = NoOutcome
    /\ calls = 0
    /\ generated = [q \in QueryTexts |-> 0]
    /\ corrections = 0
    /\ execs = 0
    /\ asked = 0
    /\ data_frame = Single(InputTable)
    /\ cleaned = 0
    /\ error_correcting_instruction = NoInstruction
    /\ last_code_executed = <<>>
    /\ owned = <<Instance(config.middlewares)>>

\* a direct call self._clean_code(code): an exception reaches the caller
CleanCall ==
    /\ pc = "clean"
    /\ LET r == _clean_code(code, _additional_dependencies,
                            config.custom_whitelisted_dependencies)
       IN  /\ _additional_dependencies' = r.deps
           /\ code_to_run' = r.code
           /\ outcome' = IF r.err # NoError THEN Raised(r.err) ELSE Returned("code")
    /\ pc' = "cleaned"
    /\ cleaned' = cleaned + 1
    /\ UNCHANGED <<config, _df, _cache, _original_instructions, _middlewares, query,
                   code, environment, count, e, results, calls, generated,
                   corrections, execs, asked, data_frame,
                   error_correcting_instruction, last_code_executed, owned>>

NextClean == CleanCall

SpecClean == InitClean /\ [][NextClean]_vars


(***************************************************************************)
(* run_code() called with a list of tables (lines 387-416 and 436): the    *)
(* environment gets df1, df2, ...; the loop and line 433 belong to the     *)
(* else branch, so nothing is executed and line 436 reads the local        *)
(* result, which was never assigned.                                       *)
(***************************************************************************)
MaxTables == 2
Tables == {Table("T0"), Table("T1")}
TableLists == UNION {[1..n -> Tables] : n \in 1..MaxTables}

RECURSIVE BindTables(_, _, _)
BindTables(env, tables, i) ==
    IF i > Len(tables) THEN env
    ELSE BindTables(Bind(env, "df" \o ToString(i), tables[i]), tables, i + 1)

InitMultiple ==
    /\ config \in Configs
    /\ _df = InputTable
    /\ _cache = <<>>
    /\ _original_instructions = <<>>
    /\ _additional_dependencies = <<>>
    /\ _middlewares = <<"ChartsMiddleware">> \o config.middlewares
    /\ pc = "run_code"
    /\ query = ""
    /\ code \in GenCodes \cup CorrectCodes
    /\ code_to_run = EmptyCode
    /\ environment = <<>>
    /\ count = 0
    /\ e = NoError
    /\ results = NoneValue
    /\ outcome = NoOutcome
    /\ calls = 0
    /\ generated = [q \in QueryTexts |-> 0]
    /\ corrections = 0
    /\ execs = 0
    /\ asked = 0
    /\ data_frame \in {Multiple(ts) : ts \in TableLists}
    /\ cleaned = 0
    /\ error_correcting_instruction = NoInstruction
    /\ last_code_executed = <<>>
    /\ owned = <<Instance(config.middlewares)>>

\* a direct call self.run_code(code, [t1, ...]): an exception reaches the caller
RunCodeMultiple ==
    /\ pc = "run_code"
    /\ data_frame.multiple
    /\ LET r == _clean_code(code, _additional_dependencies,
                            config.custom_whitelisted_dependencies)
       IN  /\ _additional_dependencies' = r.deps
           /\ IF r.err # NoError
                THEN /\ outcome' = Raised(r.err)
                     /\ UNCHANGED <<code_to_run, environment, last_code_executed>>
                ELSE /\ code_to_run' = r.code
                     /\ last_code_executed' = <<r.code>>
                     /\ environment' =
                            BindTables(_get_environment(r.deps), data_frame.tables, 1)
                     /\ outcome' = Raised(Error("UnboundLocalError", "result"))
    /\ cleaned' = cleaned + 1
    /\ pc' = "done"
    /\ UNCHANGED <<config, _df, _cache, _original_instructions, _middlewares, query,
                   code, count, e, results, calls, generated, corrections, execs,
                   asked, data_frame, error_correcting_instruction, owned>>

NextMultiple == RunCodeMultiple

SpecMultiple == InitMultiple /\ [][NextMultiple]_vars

-----------------------------------------------------------------------------
\* Several SmartDataframe instances of one process: construction,
\* add_middlewares() and the instance line 316 derives from a table result.
\* _middlewares is the list object created once by the class body (line 90);
\* no instance rebinds the attribute, so every instance reads this list.

MaxInstances == 3
MaxChain == 4

MiddlewareNames == {"M1", "M2"}
MiddlewareLists == {<<>>} \cup {<<m>> : m \in MiddlewareNames}

InitInstances ==
    /\ pc = "instances"
    /\ config \in {c \in Configs : c.max_retries = 0 /\ c.enable_cache
                                    /\ c.use_error_correction_framework
                                    /\ ~c.conversational_answer
                                    /\ ~c.enforce_privacy}
    /\ _df = InputTable
    /\ _cache = <<>>
    /\ _original_instructions = <<>>
    /\ _additional_dependencies = <<>>
    /\ _middlewares = <<"ChartsMiddleware">>
    /\ query = ""
    /\ code = EmptyCode
    /\ code_to_run = EmptyCode
    /\ environment = <<>>
    /\ count = 0
    /\ e = NoError
    /\ results = NoneValue
    /\ outcome = NoOutcome
    /\ calls = 0
    /\ generated = [q \in QueryTexts |-> 0]
    /\ corrections = 0
    /\ execs = 0
    /\ asked = 0
    /\ data_frame = Single(InputTable)
    /\ cleaned = 0
    /\ error_correcting_instruction = NoInstruction
    /\ last_code_executed = <<>>
    /\ owned = <<>>

InstanceFrame ==
    UNCHANGED <<config, _df, _cache, _original_instructions,
                _additional_dependencies, pc, query, code, code_to_run,
                environment, count, e, results, outcome, calls, generated,
                corrections, execs, asked, data_frame, cleaned,
                error_correcting_instruction, last_code_executed>>

\* self._middlewares.extend(middlewares) on the list every instance reads
add_middlewares(i, mws) ==
    /\ pc = "instances"
    /\ i \in 1..Len(owned)
    /\ mws # <<>>
    /\ Len(_middlewares) + Len(mws) <= MaxChain
    /\ _middlewares' = _middlewares \o mws
    /\ owned' = [owned EXCEPT ![i].added = @ \o mws]
    /\ InstanceFrame

\* SmartDataframe(df, config): lines 121-122 add the configured middlewares
Construct(mws) ==
    /\ pc = "instances"
    /\ Len(owned) < MaxInstances
    /\ Len(_middlewares) + Len(mws) <= MaxChain
    /\ _middlewares' = _middlewares \o mws
    /\ owned' = Append(owned, Instance(mws))
    /\ InstanceFrame

\* line 316: SmartDataframe(output["result"], config=self._config.__dict__)
Derive(i) ==
    /\ pc = "instances"
    /\ i \in 1..Len(owned)
    /\ Len(owned) < MaxInstances
    /\ Len(_middlewares) + Len(owned[i].middlewares) <= MaxChain
    /\ _middlewares' = _middlewares \o owned[i].middlewares
    /\ owned' = Append(owned, Instance(owned[i].middlewares))
    /\ InstanceFrame

NextInstances ==
    \/ \E mws \in MiddlewareLists : Construct(mws)
    \/ \E i \in 1..MaxInstances, mws \in MiddlewareLists : add_middlewares(i, mws)
    \/ \E i \in 1..MaxInstances : Derive(i)

SpecInstances == InitInstances /\ [][NextInstances]_vars

(***************************************************************************)
(*                              Properties                                 *)
(***************************************************************************)

\* The loop of run_code() is about to end because the budget is used up:
\* no attempt of this call succeeded (a success leaves pc = "loop").
Exhausted == pc = "loop" /\ ~LoopGuard(count, config.max_retries)

\* C1: with every execution attempt raising, the loop issues exactly
\* max_retries correction requests before it stops on the used-up budget
\* (for every max_retries >= 0), and never more than max_retries at any
\* point of a call.
C1_RetryBudgetExact ==
    /\ corrections <= config.max_retries
    /\ Exhausted => /\ corrections = config.max_retries
                    /\ execs = config.max_retries
                    /\ count = config.max_retries

C1_Witness ==
    /\ Exhausted
    /\ config.use_error_correction_framework
    /\ config.max_retries = MaxRetriesBound
    /\ corrections = MaxRetriesBound
    /\ e # NoError

\* C2: when every execution attempt raised and the budget is used up,
\* query() ends with the failure message that embeds the last execution
\* error e.
C2_ExhaustedReraisesLastError ==
    [][(Exhausted /\ execs > 0) => (pc' = "done" /\ outcome' = Message(e))]_vars

\* C3: at every point of every execution attempt the binding df of the
\* execution environment is the caller-supplied table.
C3_TableBindingKept ==
    "df" \in DOMAIN environment => environment["df"] = _df

\* The modules a top-level import statement imports, and whether the top
\* level name of one is approved.
ImportedModules(node) ==
    IF node.kind = "Import" THEN {node.names[i].name : i \in 1..Len(node.names)}
    ELSE IF node.kind = "ImportFrom" THEN {node.module}
    ELSE {}

Approved(m) ==
    split0(m) \in WHITELISTED_LIBRARIES \cup config.custom_whitelisted_dependencies
                  \cup WHITELISTED_BUILTINS \cup {"pandas"}

UnapprovedImports(c) ==
    {m \in UNION {ImportedModules(c.body[i]) : i \in 1..Len(c.body)} : ~Approved(m)}

\* C4: if a top-level import statement of the code given to _clean_code
\* imports a module that is not approved, the call raises BadImportError
\* and no recorded Dependency has that module as module or as name.
C4_ImportWhitelistSound ==
    (pc = "cleaned" /\ code.valid /\ UnapprovedImports(code) # {}) =>
        /\ outcome.kind = "raised"
        /\ outcome.err.type = "BadImportError"
        /\ \A i \in 1..Len(_additional_dependencies) :
              /\ _additional_dependencies[i].module \notin UnapprovedImports(code)
              /\ _additional_dependencies[i].name \notin UnapprovedImports(code)

\* C5: no failure of the pipeline escapes query(): a call that has ended
\* has returned a value or the failure message, it has not raised.
C5_NoFailureEscapes ==
    /\ outcome.kind # "raised"
    /\ pc = "done" => outcome.kind \in {"returned", "message"}
    /\ (pc = "done" /\ outcome.err # NoError) => outcome = Message(outcome.err)

C5_Witness ==
    /\ pc = "done"
    /\ results = NoneValue
    /\ execs > 0
    /\ outcome = Message(Error("TypeError", "len"))

\* C6: with enable_cache true, a query() call whose text was answered
\* before with code the generation service returned does not invoke
\* generate_code again.
C6_CacheShortCircuit ==
    [][(/\ config.enable_cache
        /\ pc = "done"
        /\ query \in DOMAIN _cache
        /\ calls' = calls + 1
        /\ query' = query) => generated' = generated]_vars

\* C7: with use_error_correction_framework false, the first execution
\* failure ends the call with that error: no correction request and no
\* second execution attempt, whatever max_retries >= 1.
C7_DisabledCorrection ==
    (~config.use_error_correction_framework /\ e # NoError) =>
        /\ pc = "done"
        /\ outcome = Message(e)
        /\ corrections = 0
        /\ execs = 1
        /\ count = 0

C7_Witness ==
    /\ ~config.use_error_correction_framework
    /\ config.max_retries = MaxRetriesBound
    /\ e = E1
    /\ pc = "done"

\* C8: when the generated code imports a module that is not approved,
\* query() ends with the failure message naming that module, with no
\* execution attempt and no correction request.
C8_UnapprovedImportEndsQuery ==
    (pc \in {"loop", "correcting", "exited", "returned", "done"} /\ code.valid
       /\ UnapprovedImports(code) # {}) =>
        /\ pc = "done"
        /\ outcome.kind = "message"
        /\ outcome.err.type = "BadImportError"
        /\ outcome.err.arg \in {split0(m) : m \in UnapprovedImports(code)}
        /\ execs = 0
        /\ corrections = 0

\* The value of the output binding an execution of c produces on its own.
ProducedBy(c) ==
    EnvGet(exec(c, Bind(_get_environment(_additional_dependencies), "df", _df)).env,
           "result")

\* C9: when the first k attempts raised and attempt k+1 succeeded, k
\* correction requests were issued, count is k, and run_code() returned
\* the value of result that the successful attempt produced.
C9_SuccessAfterCorrections ==
    (pc = "returned" /\ execs = count + 1) =>
        /\ corrections = count
        /\ results = ProducedBy(code_to_run)

\* C10: for a text result, _llm.call is asked to restate the value exactly
\* when conversational_answer is true and enforce_privacy is false, and
\* then query() returns what it answers; in every other combination of the
\* flags query() returns the raw value.
C10_ConversationalAnswer ==
    (pc = "done" /\ results.len > 1 /\ results.type = "text") =>
        LET restate == config.conversational_answer /\ ~config.enforce_privacy
        IN  /\ (asked = 1) <=> restate
            /\ (restate /\ outcome.err.type # "LLMError") => outcome.kind = "returned"
            /\ ~restate => outcome = Returned(results.result)


\* C11: run_code() with a list of tables binds table i under df<i>,
\* executes the sanitized code exactly once with no correction request,
\* and returns the value of the output binding result.
C11_MultiTableRunsOnce ==
    (pc = "done" /\ data_frame.multiple /\ last_code_executed # <<>>) =>
        /\ \A i \in 1..Len(data_frame.tables) :
              EnvGet(environment, "df" \o ToString(i)) = data_frame.tables[i]
        /\ execs = 1
        /\ corrections = 0
        /\ generated = [q \in QueryTexts |-> 0]
        /\ outcome.kind = "returned"


\* C12: a correction request follows a runtime failure only: the code whose
\* failed attempt is about to be answered by a correction request is
\* syntactically valid and imports no unapproved module.
C12_OnlyRuntimeFailuresCorrected ==
    pc = "correcting" =>
        /\ code_to_run.valid
        /\ UnapprovedImports(code_to_run) = {}

\* What _clean_code leaves: valid code without import statements and
\* without statements _is_df_overwrite removes.
IsSanitized(c) ==
    /\ c.valid
    /\ \A i \in 1..Len(c.body) :
          /\ c.body[i].kind \notin {"Import", "ImportFrom"}
          /\ ~_is_df_overwrite(c.body[i])

\* C13: every code about to be executed has passed through _clean_code
\* once since it was obtained: one _clean_code call for the initial code
\* and one per corrected code.
C13_EveryAttemptSanitized ==
    (pc = "loop" /\ LoopGuard(count, config.max_retries)) =>
        /\ cleaned = corrections + 1
        /\ IsSanitized(code_to_run)

\* C14: a correction request carries the code whose execution has just
\* failed (code_to_run, or the code it was sanitized from) and the error
\* it raised.
C14_CorrectionCarriesFailedCode ==
    [][(pc = "correcting" /\ corrections' = corrections + 1
          /\ error_correcting_instruction' # error_correcting_instruction) =>
         LET sent == error_correcting_instruction'
             r == _clean_code(sent.code, <<>>, config.custom_whitelisted_dependencies)
         IN  /\ sent.code = code_to_run \/ (r.err = NoError /\ r.code = code_to_run)
             /\ sent.error_returned = e]_vars

\* C15: every correction request is built from the context of the query
\* being answered, and no correction request fails for lack of a stored
\* context.
C15_CorrectionUsesOwnContext ==
    /\ error_correcting_instruction # NoInstruction =>
          error_correcting_instruction.question = query
    /\ outcome.err # Error("AttributeError", "_original_instructions")

\* The environment lines 409-416 build for a single table.
FreshEnvironment == Bind(_get_environment(_additional_dependencies), "df", _df)

\* C16: every execution attempt starts from a freshly built environment,
\* and when every attempt failed run_code() returns no binding of a failed
\* attempt.
C16_FreshEnvironmentPerAttempt ==
    /\ (pc = "loop" /\ LoopGuard(count, config.max_retries)) =>
          environment = FreshEnvironment
    /\ (pc = "returned" /\ execs = count) => results = NoneValue

\* A statement the claim says _clean_code keeps: no import statement and
\* no assignment whose single target is a reserved name.
Kept(node) ==
    /\ node.kind \notin {"Import", "ImportFrom"}
    /\ ~(/\ node.kind = "Assign"
         /\ Len(node.targets) = 1
         /\ node.targets[1].kind = "Name"
         /\ ReservedMatch(node.targets[1].id))

\* C17: the code _clean_code returns consists of exactly the top-level
\* statements that are neither imports nor single-target assignments to a
\* reserved name, in their original order.
C17_RemovesOnlyImportsAndSingleTargets ==
    (pc = "cleaned" /\ outcome.kind = "returned") =>
        code_to_run = Code(SelectSeq(code.body, Kept))

\* C19: the loop of run_code() ends directly after an execution attempt:
\* the sanitized initial code and every corrected code obtained have been
\* executed when run_code() returns.
C19_EveryObtainedCodeExecuted ==
    pc = "returned" =>
        /\ execs >= 1
        /\ execs = corrections + 1

\* C20: after an execution that finally succeeded, last_code_executed is
\* the code whose execution succeeded.
C20_LastCodeExecuted ==
    (pc \in {"returned", "done"} /\ execs = count + 1 /\ results # NoneValue) =>
        last_code_executed = <<code_to_run>>

\* C18: the code-transform chain an instance applies consists of the
\* default middleware, the middlewares of its own configuration and the
\* ones added to it with add_middlewares, whatever other instances exist.
C18_ChainConfinedToInstance ==
    \A i \in 1..Len(owned) :
        _middlewares = <<"ChartsMiddleware">> \o owned[i].middlewares \o owned[i].added

=============================================================================
